---- MODULE Spec2Model ----
(***************************************************************************)
(* Model of arghi (argument highlighter): the sentence splitter, the LLM   *)
(* response reconciliation, the highlight orchestrator, and the HTTP       *)
(* handlers with their file-backed store.                                  *)
(*                                                                         *)
(* Strings are sequences of one-character strings.                         *)
(***************************************************************************)
EXTENDS Integers, Sequences, FiniteSets, TLC

VARIABLES
    call,       \* pure-function specifications: the arguments of the call
    ret,        \* pure-function specifications: [done |-> FALSE], or the returned value
    env,        \* the process environment: which LLM credentials it provides
    pc,         \* per worker thread: position inside its request handler
    req,        \* per worker thread: the request being served
    resp,       \* per worker thread: what highlight_text returned or raised
    out,        \* per worker thread: the last HTTP outcome produced by its handler
    saved,      \* directory "saved": [dir, files], files: hash -> file
    results,    \* directory "saved-results": [dir, files]
    clock,      \* filesystem time, stamps file modification times
    nreq,       \* number of requests started so far
    overlap,    \* history: hash -> the latest save_query on it ran concurrently with another
    got,        \* the outcome of the last GET request served
    written     \* history: the query records written, most recent first, one per hash

vars == <<call, ret, env, pc, req, resp, out, saved, results, clock, nreq, overlap,
          got, written>>

-----------------------------------------------------------------------------
(* Bounds of the model *)

MaxTextLen == 5
MaxItems == 2
MaxRequests == 2
MaxSeqRequests == 3
HashSpace == 5

-----------------------------------------------------------------------------
(* Characters and strings *)

AsciiUpper ==
    {"A", "B", "C", "D", "E", "F", "G", "H", "I", "J", "K", "L", "M",
     "N", "O", "P", "Q", "R", "S", "T", "U", "V", "W", "X", "Y", "Z"}

\* str.isspace / regex \s on the characters the model draws
IsSpace(c) == c \in {" ", "\n", "\t"}

\* the character class [.!?]
IsTerminal(c) == c \in {".", "!", "?"}

\* the character class [A-Z]
IsAZ(c) == c \in AsciiUpper

Max(a, b) == IF a >= b THEN a ELSE b

RECURSIVE lstrip(_)
lstrip(s) == IF s # <<>> /\ IsSpace(Head(s)) THEN lstrip(Tail(s)) ELSE s

RECURSIVE rstrip(_)
rstrip(s) ==
    IF s # <<>> /\ IsSpace(s[Len(s)]) THEN rstrip(SubSeq(s, 1, Len(s) - 1)) ELSE s

\* str.strip()
strip(s) == lstrip(rstrip(s))

\* re.sub(r'\s+', ' ', s): every maximal run of whitespace becomes one space.
\* Computed on the two halves of s, whose results are joined: a run that
\* spans the cut gives a space on each side, of which one is kept.
RECURSIVE collapse_ws(_)
collapse_ws(s) ==
    IF s = <<>> THEN <<>>
    ELSE IF Len(s) = 1 THEN (IF IsSpace(s[1]) THEN <<" ">> ELSE s)
    ELSE LET mid == Len(s) \div 2
             l == collapse_ws(SubSeq(s, 1, mid))
             r == collapse_ws(SubSeq(s, mid + 1, Len(s)))
         IN  IF l[Len(l)] = " " /\ r[1] = " " THEN l \o Tail(r) ELSE l \o r

\* highlight.py line 18
normalize(text) == collapse_ws(strip(text))

\* first position >= i of s that holds no whitespace (Len(s)+1 when none)
RECURSIVE ws_run_end(_, _)
ws_run_end(s, i) ==
    IF i <= Len(s) /\ IsSpace(s[i]) THEN ws_run_end(s, i + 1) ELSE i

\* a splitter that cuts after a terminal mark whatever follows the whitespace
match_boundary_any_case(s, i) ==
    IF i > 1 /\ i <= Len(s) /\ IsTerminal(s[i - 1]) /\ IsSpace(s[i])
    THEN LET j == ws_run_end(s, i)
         IN  IF j <= Len(s) THEN j ELSE 0
    ELSE 0

\* first alternative of the pattern, tried at position i: (?<=[.!?])\s+(?=[A-Z]).
\* The end of the match (exclusive), or 0 when it does not match there.
match_boundary(s, i) ==
    IF i > 1 /\ i <= Len(s) /\ IsTerminal(s[i - 1]) /\ IsSpace(s[i])
    THEN LET j == ws_run_end(s, i)
         IN  IF j <= Len(s) /\ IsAZ(s[j]) THEN j ELSE 0
    ELSE 0

\* second alternative, tried at position i: (?<=[.!?])$ ; $ matches at the end
\* of the string and just before a final newline
match_end(s, i) ==
    /\ i > 1
    /\ IsTerminal(s[i - 1])
    /\ \/ i = Len(s) + 1
       \/ i = Len(s) /\ s[i] = "\n"

\* the pattern matches at position i
matches_at(s, i) == match_boundary(s, i) # 0 \/ match_end(s, i)

\* re.split(pattern, s): the next match is searched from position i on; last is
\* where the current fragment starts. A boundary match is consumed, the empty
\* match at the end is stepped over.
RECURSIVE re_split(_, _, _)
re_split(s, last, i) ==
    LET found == {k \in i..(Len(s) + 1) : matches_at(s, k)}
    IN  IF found = {} THEN <<SubSeq(s, last, Len(s))>>
        ELSE LET k == CHOOSE x \in found : \A y \in found : x <= y
                 j == match_boundary(s, k)
             IN  IF j # 0 THEN <<SubSeq(s, last, k - 1)>> \o re_split(s, j, j)
                 ELSE <<SubSeq(s, last, k - 1)>> \o re_split(s, k, k + 1)

\* [s.strip() for s in sentences if s.strip()]
RECURSIVE strip_filter(_)
strip_filter(ss) ==
    IF ss = <<>> THEN <<>>
    ELSE IF strip(Head(ss)) # <<>>
         THEN <<strip(Head(ss))>> \o strip_filter(Tail(ss))
         ELSE strip_filter(Tail(ss))

split_sentences(text) == strip_filter(re_split(normalize(text), 1, 1))

-----------------------------------------------------------------------------
(* LLM invocation (llm.py) *)

\* A request context: ctx.request_key is the request-scoped key set by
\* set_request_api_key; ctx.env_key and ctx.project are GEMINI_API_KEY and
\* GOOGLE_CLOUD_PROJECT of the environment.
\* init_llm_client(): the kind of client built, or the exception raised
init_llm_client(ctx) ==
    IF ctx.request_key \/ ctx.env_key THEN "api_key_client"
    ELSE IF ctx.project THEN "vertex_client"
    ELSE "LLMNotConfigured"

\* The LLM black box is an input llm: [kind |-> "raise"] when generate_content
\* raises, [kind |-> "text", text |-> raw] when it answers; raw is a sequence of
\* tokens [t |-> "ws"], [t |-> "nl"], [t |-> "fence"] (```), [t |-> "json"] (the
\* word json), [t |-> "junk"], [t |-> "doc", v |-> a JSON object].
\* call_llm(): [exc, text, events]; exc = "" when it returns
call_llm(ctx, llm) ==
    IF init_llm_client(ctx) = "LLMNotConfigured"
    THEN [exc |-> "LLMNotConfigured", text |-> <<>>,
          events |-> <<"call_llm", "init_llm_client">>]
    ELSE IF llm.kind = "raise"
    THEN [exc |-> "APIError", text |-> <<>>,
          events |-> <<"call_llm", "init_llm_client", "generate_content">>]
    ELSE IF llm.text = <<>>
    THEN [exc |-> "LLMCallError", text |-> <<>>,
          events |-> <<"call_llm", "init_llm_client", "generate_content">>]
    ELSE [exc |-> "", text |-> llm.text,
          events |-> <<"call_llm", "init_llm_client", "generate_content">>]

-----------------------------------------------------------------------------
(* Relevance scorer (highlight.py) *)

IsWsTok(k) == k.t \in {"ws", "nl"}

RECURSIVE lstrip_toks(_)
lstrip_toks(r) == IF r # <<>> /\ IsWsTok(Head(r)) THEN lstrip_toks(Tail(r)) ELSE r

RECURSIVE rstrip_toks(_)
rstrip_toks(r) ==
    IF r # <<>> /\ IsWsTok(r[Len(r)]) THEN rstrip_toks(SubSeq(r, 1, Len(r) - 1)) ELSE r

\* response.strip()
strip_toks(r) == lstrip_toks(rstrip_toks(r))

DropIf(r, kind) == IF r # <<>> /\ Head(r).t = kind THEN Tail(r) ELSE r

DropLastIf(r, kind) ==
    IF r # <<>> /\ r[Len(r)].t = kind THEN SubSeq(r, 1, Len(r) - 1) ELSE r

\* re.sub(r'^```(?:json)?\n?', '', r)
strip_open_fence(r) ==
    IF r # <<>> /\ Head(r).t = "fence" THEN DropIf(DropIf(Tail(r), "json"), "nl") ELSE r

\* re.sub(r'\n?```$', '', r); $ also matches before a final newline
strip_close_fence(r) ==
    LET body == IF Len(r) >= 2 /\ r[Len(r)].t = "nl" /\ r[Len(r) - 1].t = "fence"
                THEN SubSeq(r, 1, Len(r) - 1) ELSE r
    IN  IF body # <<>> /\ body[Len(body)].t = "fence"
        THEN DropLastIf(SubSeq(body, 1, Len(body) - 1), "nl")
             \o SubSeq(r, Len(body) + 1, Len(r))
        ELSE r

\* lines 69-72
unfence(raw) ==
    LET r == strip_toks(raw)
    IN  IF r # <<>> /\ Head(r).t = "fence"
        THEN strip_close_fence(strip_open_fence(r))
        ELSE r

\* json.loads accepts exactly one document, whitespace around it allowed
json_ok(r) == Len(strip_toks(r)) = 1 /\ strip_toks(r)[1].t = "doc"

json_loads(r) == strip_toks(r)[1].v

\* a reconciliation by list position instead of by index
scores_by_position(items, idx, default) ==
    IF idx <= Len(items) THEN items[idx] ELSE default

\* {item["index"]: item for item in data["scores"]}.get(idx): a later item
\* replaces an earlier one with the same index
RECURSIVE scores_by_index(_, _, _)
scores_by_index(items, idx, default) ==
    IF items = <<>> THEN default
    ELSE IF items[Len(items)].index = idx THEN items[Len(items)]
         ELSE scores_by_index(SubSeq(items, 1, Len(items) - 1), idx, default)

\* item.get(key, default)
dict_get(item, key, default) == IF key \in DOMAIN item THEN item[key] ELSE default

None == "None"

DefaultItem == [score |-> "0.0", rationale |-> None]

\* lines 83-91: the SentenceScore built for the sentence at zero-based position i
sentence_score(sentences, items, i) ==
    LET item == scores_by_index(items, i + 1, DefaultItem)
    IN  [index |-> i,
         text |-> sentences[i + 1],
         score |-> dict_get(item, "score", "0.0"),
         rationale |-> dict_get(item, "rationale", None)]

\* a result that keeps only the sentences the answer lists
build_result_listed_only(sentences, items) ==
    LET listed == {k \in 1..Len(sentences) :
                      \E m \in 1..Len(items) : items[m].index = k}
        nth(n) == CHOOSE k \in listed : Cardinality({j \in listed : j <= k}) = n
    IN  [n \in 1..Cardinality(listed) |-> sentence_score(sentences, items, nth(n) - 1)]

build_result(sentences, items) ==
    [k \in 1..Len(sentences) |-> sentence_score(sentences, items, k - 1)]

\* schema.py: SentenceScore.score is a float, a JSON null is refused
valid_sentence_score(ss) == ss.score # "null"

NoResponse == [sentences |-> <<>>, question |-> <<>>]

Raise(exc, events) == [exc |-> exc, response |-> NoResponse, events |-> events]

Return(response, events) == [exc |-> "", response |-> response, events |-> events]

\* score_sentences(): [exc, response, events]. The prompt only feeds the black
\* box, whose answer is the input llm.
score_sentences(sentences, question, ctx, llm) ==
    LET r == call_llm(ctx, llm)
        body == unfence(r.text)
    IN  IF r.exc # "" THEN Raise(r.exc, r.events)
        ELSE IF ~json_ok(body) THEN Raise("ValueError", r.events)
        ELSE LET data == json_loads(body)
             IN  IF "scores" \notin DOMAIN data THEN Raise("KeyError", r.events)
                 ELSE IF \E k \in 1..Len(data.scores) : "index" \notin DOMAIN data.scores[k]
                 THEN Raise("KeyError", r.events)
                 ELSE LET result == build_result(sentences, data.scores)
                      IN  IF \E k \in 1..Len(result) : ~valid_sentence_score(result[k])
                          THEN Raise("ValidationError", r.events)
                          ELSE Return([sentences |-> result, question |-> question],
                                      r.events)

\* an orchestrator without the short cut for a text without sentences
highlight_text_always_scores(text, question, ctx, llm) ==
    score_sentences(split_sentences(text), question, ctx, llm)

\* highlight_text()
highlight_text(text, question, ctx, llm) ==
    LET sentences == split_sentences(text)
    IN  IF sentences = <<>>
        THEN Return([sentences |-> <<>>, question |-> question], <<>>)
        ELSE score_sentences(sentences, question, ctx, llm)

-----------------------------------------------------------------------------
(* Specification SpecSplit: split_sentences applied to every bounded text *)

Alphabet == {"a", "B", ".", " ", "\n", "É"}

Texts == UNION {[1..n -> Alphabet] : n \in 0..MaxTextLen}

Idle == "idle"

\* the server part of the state, untouched by the pure-function specifications
ServerQuiet ==
    /\ env = "none"
    /\ pc = Idle /\ req = Idle /\ resp = Idle /\ out = Idle
    /\ saved = Idle /\ results = Idle /\ overlap = Idle /\ written = Idle
    /\ got = Idle
    /\ clock = 0 /\ nreq = 0

ServerUnchanged ==
    UNCHANGED <<env, pc, req, resp, out, saved, results, clock, nreq, overlap, got,
                written>>

SplitInit ==
    /\ call \in [fn : {"split_sentences"}, text : Texts]
    /\ ret = [done |-> FALSE]
    /\ ServerQuiet

Split ==
    /\ call.fn = "split_sentences"
    /\ ~ret.done
    /\ ret' = [done |-> TRUE, value |-> split_sentences(call.text)]
    /\ UNCHANGED call
    /\ ServerUnchanged

SplitNext == Split

SpecSplit == SplitInit /\ [][SplitNext]_vars

-----------------------------------------------------------------------------
(* C7 *)

\* an upper-case letter in the sense of str.isupper(): A-Z and, among the
\* characters drawn, the non-ASCII capital
IsUpper(c) == c \in AsciiUpper \cup {"É"}

RECURSIVE Join(_, _)
Join(ss, sep) ==
    IF ss = <<>> THEN <<>>
    ELSE IF Len(ss) = 1 THEN ss[1]
         ELSE ss[1] \o sep \o Join(Tail(ss), sep)

\* positions of the spaces of n that stand between a terminal mark and a capital
BoundariesUpper(n) ==
    {i \in 2..(Len(n) - 1) :
        IsTerminal(n[i - 1]) /\ IsSpace(n[i]) /\ IsUpper(n[i + 1])}

BoundariesAZ(n) ==
    {i \in 2..(Len(n) - 1) :
        IsTerminal(n[i - 1]) /\ IsSpace(n[i]) /\ IsAZ(n[i + 1])}

\* positions, in the single-space join of ss, of the spaces between its elements
CutPositions(ss) ==
    {Len(Join(SubSeq(ss, 1, k), <<" ">>)) + 1 : k \in 1..(Len(ss) - 1)}

Trimmed(s) == s # <<>> /\ ~IsSpace(s[1]) /\ ~IsSpace(s[Len(s)])

SplitContract(text, ss, bounds) ==
    LET n == normalize(text)
    IN  /\ \A k \in 1..Len(ss) : Trimmed(ss[k])
        /\ Join(ss, <<" ">>) = n
        /\ CutPositions(ss) = bounds
        /\ bounds = {} => ss = (IF n = <<>> THEN <<>> ELSE <<n>>)

-----------------------------------------------------------------------------
(* Specification SpecScore: one highlight_text call, over bounded texts,     *)
(* credentials and LLM answers                                              *)

ScoreTexts == {<<>>, <<" ", "\n">>, <<"A", ".">>, <<"A", ".", " ", "\n", "B">>}

ScoreQuestion == <<"q", "?">>

Indexes == {1, 2, 3}
ScoreValues == {"0.8", "null"}
Rationales == {"why"}

\* the objects of a "scores" list, with any of their keys missing
Items ==
    [index : Indexes, score : ScoreValues, rationale : Rationales]
    \cup [index : Indexes, score : ScoreValues]
    \cup [index : Indexes, rationale : Rationales]
    \cup [index : Indexes]
    \cup [score : ScoreValues, rationale : Rationales]

ItemLists == UNION {[1..n -> Items] : n \in 0..MaxItems}

Docs == {[scores |-> l] : l \in ItemLists} \cup {[result |-> <<>>]}

Doc(d) == [t |-> "doc", v |-> d]
Ws == [t |-> "ws"]
Nl == [t |-> "nl"]
Fence == [t |-> "fence"]
JsonWord == [t |-> "json"]
Junk == [t |-> "junk"]

GoodDoc == [scores |-> <<[index |-> 1, score |-> "0.8", rationale |-> "why"]>>]

\* answers with surrounding whitespace, code fences, or no JSON in them
ShapedAnswers ==
    {<<>>,
     <<Junk>>,
     <<Doc(GoodDoc), Junk>>,
     <<Ws, Doc(GoodDoc), Nl>>,
     <<Fence, JsonWord, Nl, Doc(GoodDoc), Nl, Fence>>,
     <<Fence, Doc(GoodDoc), Fence, Nl>>,
     <<Fence, Nl, Doc(GoodDoc)>>,
     <<Fence, Junk, Nl, Fence>>}

Answers == {<<Doc(d)>> : d \in Docs} \cup ShapedAnswers

Llms == {[kind |-> "raise"]} \cup {[kind |-> "text", text |-> a] : a \in Answers}

NoCredential == [request_key |-> FALSE, env_key |-> FALSE, project |-> FALSE]

Configured ==
    {[request_key |-> TRUE, env_key |-> FALSE, project |-> FALSE],
     [request_key |-> FALSE, env_key |-> FALSE, project |-> TRUE]}

\* without a credential the black box is never reached, its answer is immaterial
ScoreInit ==
    /\ \/ call \in [fn : {"highlight_text"}, text : ScoreTexts,
                    question : {ScoreQuestion}, ctx : Configured, llm : Llms]
       \/ call \in [fn : {"highlight_text"}, text : ScoreTexts,
                    question : {ScoreQuestion}, ctx : {NoCredential},
                    llm : {[kind |-> "raise"]}]
    /\ ret = [done |-> FALSE]
    /\ ServerQuiet

HighlightText ==
    /\ call.fn = "highlight_text"
    /\ ~ret.done
    /\ ret' = [done |-> TRUE,
               value |-> highlight_text(call.text, call.question, call.ctx, call.llm)]
    /\ UNCHANGED call
    /\ ServerUnchanged

ScoreNext == HighlightText

SpecScore == ScoreInit /\ [][ScoreNext]_vars

Returned == ret.done /\ ret.value.exc = ""

\* the "scores" list of the parsed answer of a call that reached the black box
ParsedScores == json_loads(unfence(call.llm.text)).scores

Scored == Returned /\ ret.value.events # <<>>

-----------------------------------------------------------------------------
(* C1 *)

\* C1: a returned response holds one SentenceScore per sentence of
\* split_sentences(text), in order, index = zero-based position, text = the
\* sentence; it is empty iff the splitter produced nothing; whatever the
\* "scores" list of the answer holds.
C1_OneScorePerSentence ==
    Returned =>
        LET ss == split_sentences(call.text)
            r == ret.value.response.sentences
        IN  /\ Len(r) = Len(ss)
            /\ \A k \in 1..Len(ss) : r[k].index = k - 1 /\ r[k].text = ss[k]
            /\ (r = <<>>) <=> (ss = <<>>)

\* two sentences were scored from an answer that lists a single object, whose
\* index is beyond the sentences
C1_Witness ==
    /\ Scored
    /\ Len(ret.value.response.sentences) = 2
    /\ Len(ParsedScores) = 1
    /\ ParsedScores[1].index = 3

-----------------------------------------------------------------------------
(* C2 *)

Reorderings(n) == {p \in [1..n -> 1..n] : \A i, j \in 1..n : i # j => p[i] # p[j]}

Permuted(items, p) == [k \in 1..Len(items) |-> items[p[k]]]

\* p keeps the relative order of the items that share an index
KeepsOrderOfEqualIndexes(items, p) ==
    \A i, j \in 1..Len(items) :
        (i < j /\ items[p[i]].index = items[p[j]].index) => p[i] < p[j]

\* the score and rationale the result holds for the sentence at position i
Reconciled(item, r) ==
    /\ r.score = (IF "score" \in DOMAIN item THEN item.score ELSE "0.0")
    /\ r.rationale = (IF "rationale" \in DOMAIN item THEN item.rationale ELSE None)

\* C2 (as claimed): for the sentence at position i, an item with index i+1 gives
\* the result its score (0.0 when it has none) and rationale, no such item gives
\* 0.0 and no rationale, indexes outside 1..N are ignored, and any permutation
\* of the scores list gives the same result.
C2_AnyPermutationSameResult ==
    Scored =>
        LET items == ParsedScores
            r == ret.value.response.sentences
        IN  /\ \A i \in 0..(Len(r) - 1) :
                /\ \A k \in 1..Len(items) :
                       items[k].index = i + 1 => Reconciled(items[k], r[i + 1])
                /\ (\A k \in 1..Len(items) : items[k].index # i + 1)
                       => r[i + 1].score = "0.0" /\ r[i + 1].rationale = None
            /\ \A p \in Reorderings(Len(items)) :
                   build_result(split_sentences(call.text), Permuted(items, p)) = r

\* C2 (amended): for the sentence at position i, the LAST item of the list with
\* index i+1 gives the result its score (0.0 when it has none) and rationale, no
\* such item gives 0.0 and no rationale, indexes outside 1..N are ignored, and
\* any permutation of the list that keeps the relative order of the items
\* sharing an index gives the same result.
C2_LastItemOfIndexWins ==
    Scored =>
        LET items == ParsedScores
            r == ret.value.response.sentences
        IN  /\ \A i \in 0..(Len(r) - 1) :
                /\ \A k \in 1..Len(items) :
                       (/\ items[k].index = i + 1
                        /\ \A m \in (k + 1)..Len(items) : items[m].index # i + 1)
                       => Reconciled(items[k], r[i + 1])
                /\ (\A k \in 1..Len(items) : items[k].index # i + 1)
                       => r[i + 1].score = "0.0" /\ r[i + 1].rationale = None
            /\ \A p \in Reorderings(Len(items)) :
                   KeepsOrderOfEqualIndexes(items, p) =>
                       build_result(split_sentences(call.text), Permuted(items, p)) = r

\* an out-of-order list: sentence 2 is listed first and without a score,
\* sentence 1 second, and both found their own object
C2_Witness ==
    /\ Scored
    /\ Len(ret.value.response.sentences) = 2
    /\ Len(ParsedScores) = 2
    /\ ParsedScores[1] = [index |-> 2, rationale |-> "why"]
    /\ ParsedScores[2].index = 1
    /\ ret.value.response.sentences[2].score = "0.0"
    /\ ret.value.response.sentences[2].rationale = "why"

-----------------------------------------------------------------------------
(* C5 *)

WhitespaceOnly(text) == \A i \in 1..Len(text) : IsSpace(text[i])

\* C5: for an empty or whitespace-only text highlight_text returns an empty
\* sentence sequence with the question preserved, and neither call_llm nor the
\* credential resolution happens during the call.
C5_EmptyTextNoLlmCall ==
    (ret.done /\ WhitespaceOnly(call.text)) =>
        /\ ret.value.exc = ""
        /\ ret.value.response = [sentences |-> <<>>, question |-> call.question]
        /\ ret.value.events = <<>>

\* a whitespace-only text returned although no credential could be resolved
C5_Witness ==
    /\ ret.done
    /\ call.text = <<" ", "\n">>
    /\ call.ctx = NoCredential
    /\ ret.value.exc = ""

-----------------------------------------------------------------------------
(* HTTP surface and persistence (server.py) *)

PreviewLen == 100

QueryJsonOverhead == 34
EmptyResultJsonOverhead == 39
ResultJsonOverhead == 41
SentenceJsonOverhead == 86

Hashes == 0..(HashSpace - 1)

Threads == {"t1", "t2"}

\* ord(c) of the characters the sample requests use
Ord(c) ==
    CASE c = " " -> 32
      [] c = "." -> 46
      [] c = "A" -> 65
      [] c = "B" -> 66
      [] c = "a" -> 97
      [] c = "b" -> 98
      [] c = "q" -> 113
      [] c = "|" -> 124

\* sum of i * ord(bytes[i]) for i in lo..hi
RECURSIVE weighted_sum(_, _, _)
weighted_sum(bytes, lo, hi) ==
    IF lo > hi THEN 0
    ELSE IF lo = hi THEN lo * Ord(bytes[lo])
    ELSE LET mid == (lo + hi) \div 2
         IN  weighted_sum(bytes, lo, mid) + weighted_sum(bytes, mid + 1, hi)

\* hashlib.sha256(bytes).hexdigest()[:12]: a fixed function of the bytes into a
\* finite space of identifiers, here a position-weighted checksum into Hashes
sha256_12(bytes) == weighted_sum(bytes, 1, Len(bytes)) % HashSpace

\* f"{req.text}|{req.question}"
query_str(r) == r.text \o <<"|">> \o r.question

\* query_hash of save_query
query_hash(r) == sha256_12(query_str(r))

\* query_data of save_query
query_data(r) == [text |-> r.text, question |-> r.question]

\* number of bytes json.dump(query_data, f, indent=2) writes
query_json_len(d) == QueryJsonOverhead + Len(d.text) + Len(d.question)

\* bytes of a float and of an optional string in JSON
ScoreJsonLen(x) == 3
RationaleJsonLen(x) == IF x = None THEN 4 ELSE 5

RECURSIVE sentences_json_len(_)
sentences_json_len(ss) ==
    IF ss = <<>> THEN 0
    ELSE SentenceJsonOverhead + Len(Head(ss).text) + ScoreJsonLen(Head(ss).score)
         + RationaleJsonLen(Head(ss).rationale) + sentences_json_len(Tail(ss))

\* number of bytes json.dump(response.model_dump(), f, indent=2) writes
result_json_len(d) ==
    IF d.sentences = <<>> THEN EmptyResultJsonOverhead + Len(d.question)
    ELSE ResultJsonOverhead + sentences_json_len(d.sentences) + Len(d.question)

\* A file is [exists, val, vlen, size, mtime]: val is the document a writer put
\* at its start, vlen that document's length, size the file's length. The
\* bytes between vlen and size are left over from a longer document.
NoData == [empty |-> TRUE]

NoFile == [exists |-> FALSE, val |-> NoData, vlen |-> 0, size |-> 0, mtime |-> 0]

\* an open that keeps the bytes of an existing file
open_keep(file, now) == [file EXCEPT !.exists = TRUE, !.mtime = now]

\* open(path, "w"): creates the file or truncates it to no bytes
open_w(file, now) ==
    [exists |-> TRUE, val |-> NoData, vlen |-> 0, size |-> 0, mtime |-> now]

\* json.dump(...) and the close of the with block: the buffered document is
\* written at offset 0 of the file as it is by then
dump_close(file, doc, len, now) ==
    [exists |-> TRUE, val |-> doc, vlen |-> len, size |-> Max(len, file.size),
     mtime |-> now]

\* json.load(fp) succeeds on exactly one complete document
json_load_ok(file) == file.val # NoData /\ file.size = file.vlen

EmptyDir == [dir |-> FALSE, files |-> [h \in Hashes |-> NoFile]]

Http(route, status, body) ==
    [kind |-> "http", route |-> route, status |-> status, body |-> body]

HttpError(route, status, detail) ==
    [kind |-> "http", route |-> route, status |-> status, detail |-> detail]

\* an exception no handler catches: the framework answers 500 without a detail
Unhandled(route, exc) == [kind |-> "unhandled", route |-> route, exc |-> exc]

NoOutcome == [kind |-> "none"]

\* str(e) of the exceptions llm.py raises
Detail(exc) ==
    IF exc = "LLMNotConfigured"
    THEN "No LLM configuration found. Provide a Gemini API key or set GOOGLE_CLOUD_PROJECT."
    ELSE "Empty response from LLM"

\* lines 43-48: the except clauses of highlight
highlight_except(exc) ==
    IF exc = "LLMNotConfigured" THEN HttpError("highlight", 400, Detail(exc))
    ELSE IF exc = "LLMCallError" THEN HttpError("highlight", 500, Detail(exc))
    ELSE Unhandled("highlight", exc)

\* schema.py: the fields HighlightResponse declares; assigning any other
\* attribute of a pydantic model raises ValueError
HighlightResponseFields == {"sentences", "question"}

\* lines 52-54: response.hash = query_hash; return response
attach_hash(response, h) ==
    IF "hash" \in HighlightResponseFields
    THEN Http("highlight", 200,
              [sentences |-> response.sentences, question |-> response.question,
               hash |-> h])
    ELSE Unhandled("highlight", "ValueError")

\* s[:n]
Take(s, n) == SubSeq(s, 1, IF Len(s) < n THEN Len(s) ELSE n)

\* a sort without reverse=True
RECURSIVE sorted_by_mtime_ascending(_, _)
sorted_by_mtime_ascending(files, hs) ==
    IF hs = {} THEN <<>>
    ELSE LET h == CHOOSE x \in hs : \A y \in hs : files[x].mtime <= files[y].mtime
         IN  <<h>> \o sorted_by_mtime_ascending(files, hs \ {h})

\* sorted(files, key=st_mtime, reverse=True) over the hashes in hs
RECURSIVE sorted_by_mtime(_, _)
sorted_by_mtime(files, hs) ==
    IF hs = {} THEN <<>>
    ELSE LET h == CHOOSE x \in hs : \A y \in hs : files[y].mtime <= files[x].mtime
         IN  <<h>> \o sorted_by_mtime(files, hs \ {h})

list_entry(files, h) ==
    [hash |-> h,
     question |-> Take(files[h].val.question, PreviewLen),
     text_preview |-> Take(files[h].val.text, PreviewLen)]

\* list_saved()
list_saved(sv) ==
    IF ~sv.dir THEN Http("list_saved", 200, <<>>)
    ELSE LET hs == {h \in Hashes : sv.files[h].exists}
             order == sorted_by_mtime(sv.files, hs)
         IN  IF \E h \in hs : ~json_load_ok(sv.files[h])
             THEN Unhandled("list_saved", "JSONDecodeError")
             ELSE Http("list_saved", 200,
                       [k \in 1..Len(order) |-> list_entry(sv.files, order[k])])

NullResult == [null |-> TRUE]

\* a lookup that answers 404 on the result file instead of the query file
get_saved_by_result(sv, rs, h) ==
    IF ~rs.files[h].exists THEN HttpError("get_saved", 404, "Query not found")
    ELSE IF ~json_load_ok(sv.files[h]) THEN Unhandled("get_saved", "JSONDecodeError")
    ELSE IF ~json_load_ok(rs.files[h]) THEN Unhandled("get_saved", "JSONDecodeError")
    ELSE Http("get_saved", 200, [query |-> sv.files[h].val, result |-> rs.files[h].val])

\* get_saved(query_hash)
get_saved(sv, rs, h) ==
    IF ~sv.files[h].exists THEN HttpError("get_saved", 404, "Query not found")
    ELSE IF ~json_load_ok(sv.files[h]) THEN Unhandled("get_saved", "JSONDecodeError")
    ELSE IF ~rs.files[h].exists
         THEN Http("get_saved", 200, [query |-> sv.files[h].val, result |-> NullResult])
    ELSE IF ~json_load_ok(rs.files[h]) THEN Unhandled("get_saved", "JSONDecodeError")
    ELSE Http("get_saved", 200, [query |-> sv.files[h].val, result |-> rs.files[h].val])

-----------------------------------------------------------------------------
(* Specification Spec: the server, two worker threads serving requests *)

LongText == [i \in 1..(PreviewLen + 1) |-> "a"]

LongQuestion == [i \in 1..(PreviewLen + 1) |-> "q"]

SampleRequests ==
    {[text |-> <<"A", ".", "|">>, question |-> <<"b">>],
     [text |-> <<"A", ".">>, question |-> <<"|", "b">>],
     [text |-> <<"A", ".", " ", "B">>, question |-> <<"q", "q">>]}

\* requests whose text and question are longer than a preview
LongRequests ==
    SampleRequests \cup {[text |-> LongText, question |-> LongQuestion]}

\* the answers of the black box: none, no JSON, and two JSON answers of
\* different lengths
ServerLlms ==
    {[kind |-> "text", text |-> <<>>],
     [kind |-> "text", text |-> <<Junk>>],
     [kind |-> "text", text |-> <<Doc([scores |-> <<>>])>>],
     [kind |-> "text", text |-> <<Fence, JsonWord, Nl, Doc(GoodDoc), Nl, Fence>>]}

Envs == {[env_key |-> FALSE, project |-> FALSE]}

NoRequest == [text |-> <<>>, question |-> <<>>]

NoResult == Raise("none", <<>>)

ServerInit ==
    /\ call = [fn |-> "serve"]
    /\ ret = [done |-> FALSE]
    /\ env \in Envs
    /\ pc = [t \in Threads |-> Idle]
    /\ req = [t \in Threads |-> NoRequest]
    /\ resp = [t \in Threads |-> NoResult]
    /\ out = [t \in Threads |-> NoOutcome]
    /\ saved = EmptyDir
    /\ results = EmptyDir
    /\ clock = 0
    /\ nreq = 0
    /\ overlap = [h \in Hashes |-> FALSE]
    /\ got = NoOutcome
    /\ written = <<>>

\* the threads other than t that are inside save_query for hash h
Saving(t, h) ==
    {u \in Threads \ {t} : pc[u] \in {"qopen", "qdone", "ropen"} /\ query_hash(req[u]) = h}

\* the pool hands a request to its first idle worker
FirstIdle(t) == pc[t] = Idle /\ (t = "t2" => pc["t1"] # Idle)

\* POST /api/highlight, lines 39-48: the key of the header or body becomes the
\* request-scoped key, then highlight_text runs
Highlight(t, requests) ==
    /\ FirstIdle(t)
    /\ \E r \in requests, x_api_key \in BOOLEAN, api_key \in BOOLEAN,
          llm \in ServerLlms :
          LET ctx == [request_key |-> x_api_key \/ api_key,
                      env_key |-> env.env_key, project |-> env.project]
              res == highlight_text(r.text, r.question, ctx, llm)
          IN  /\ req' = [req EXCEPT ![t] = r]
              /\ resp' = [resp EXCEPT ![t] = res]
              /\ IF res.exc = ""
                 THEN /\ pc' = [pc EXCEPT ![t] = "save"]
                      /\ out' = [out EXCEPT ![t] = NoOutcome]
                 ELSE /\ pc' = pc
                      /\ out' = [out EXCEPT ![t] = highlight_except(res.exc)]
    /\ nreq' = nreq + 1
    /\ UNCHANGED <<call, ret, env, saved, results, clock, overlap, got, written>>

\* save_query, lines 59-74: both directories are made, the query file is opened
SaveOpenQuery(t) ==
    /\ pc[t] = "save"
    /\ LET h == query_hash(req[t])
       IN  /\ saved' = [dir |-> TRUE,
                        files |-> [saved.files EXCEPT ![h] = open_w(@, clock + 1)]]
           /\ overlap' = [overlap EXCEPT ![h] = Saving(t, h) # {}]
    /\ results' = [results EXCEPT !.dir = TRUE]
    /\ clock' = clock + 1
    /\ pc' = [pc EXCEPT ![t] = "qopen"]
    /\ UNCHANGED <<call, ret, env, req, resp, out, nreq, got, written>>

\* save_query, line 75 and the end of its with block
SaveCloseQuery(t) ==
    /\ pc[t] = "qopen"
    /\ LET h == query_hash(req[t])
           d == query_data(req[t])
       IN  /\ saved' = [saved EXCEPT !.files[h] =
                            dump_close(@, d, query_json_len(d), clock + 1)]
           /\ written' = <<[hash |-> h, query |-> d]>>
                         \o SelectSeq(written, LAMBDA w : w.hash # h)
    /\ clock' = clock + 1
    /\ pc' = [pc EXCEPT ![t] = "qdone"]
    /\ UNCHANGED <<call, ret, env, req, resp, out, results, nreq, overlap, got>>

\* save_query, line 78: the result file is opened
SaveOpenResult(t) ==
    /\ pc[t] = "qdone"
    /\ results' = [results EXCEPT !.files[query_hash(req[t])] = open_w(@, 0)]
    /\ pc' = [pc EXCEPT ![t] = "ropen"]
    /\ UNCHANGED <<call, ret, env, req, resp, out, saved, clock, nreq, overlap, got, written>>

\* save_query, line 79 and the end of its with block
SaveCloseResult(t) ==
    /\ pc[t] = "ropen"
    /\ LET d == resp[t].response
       IN  results' = [results EXCEPT !.files[query_hash(req[t])] =
                           dump_close(@, d, result_json_len(d), 0)]
    /\ pc' = [pc EXCEPT ![t] = "rdone"]
    /\ UNCHANGED <<call, ret, env, req, resp, out, saved, clock, nreq, overlap, got, written>>

\* highlight, lines 51-54, after save_query returned
AttachHash(t) ==
    /\ pc[t] = "rdone"
    /\ out' = [out EXCEPT ![t] = attach_hash(resp[t].response, query_hash(req[t]))]
    /\ pc' = [pc EXCEPT ![t] = Idle]
    /\ UNCHANGED <<call, ret, env, req, resp, saved, results, clock, nreq, overlap,
                   got, written>>

\* GET /api/saved
ListSaved ==
    /\ got' = list_saved(saved)
    /\ nreq' = nreq + 1
    /\ UNCHANGED <<call, ret, env, pc, req, resp, out, saved, results, clock,
                   overlap, written>>

\* GET /api/saved/{query_hash}
GetSaved ==
    /\ \E h \in Hashes : got' = get_saved(saved, results, h)
    /\ nreq' = nreq + 1
    /\ UNCHANGED <<call, ret, env, pc, req, resp, out, saved, results, clock,
                   overlap, written>>

Next ==
    \/ \E t \in Threads :
        \/ nreq < MaxRequests /\ Highlight(t, SampleRequests)
        \/ SaveOpenQuery(t)
        \/ SaveCloseQuery(t)
        \/ SaveOpenResult(t)
        \/ SaveCloseResult(t)
        \/ AttachHash(t)
    \/ nreq < MaxRequests /\ ListSaved
    \/ nreq < MaxRequests /\ GetSaved

Spec == ServerInit /\ [][Next]_vars

\* every thread is between two requests
AllIdle == \A t \in Threads : pc[t] = Idle

\* Specification SpecSeq: the same server with its requests served one at a
\* time, each completed before the next starts
SeqNext ==
    \/ \E t \in Threads :
        \/ nreq < MaxSeqRequests /\ AllIdle /\ Highlight(t, LongRequests)
        \/ SaveOpenQuery(t)
        \/ SaveCloseQuery(t)
        \/ SaveOpenResult(t)
        \/ SaveCloseResult(t)
        \/ AttachHash(t)
    \/ nreq < MaxSeqRequests /\ AllIdle /\ ListSaved
    \/ nreq < MaxSeqRequests /\ AllIdle /\ GetSaved

SpecSeq == ServerInit /\ [][SeqNext]_vars

\* thread t has served, or is serving, a POST /api/highlight
Posted(t) == resp[t].exc # "none"

\* no thread is inside save_query
NoSaveInProgress == \A t \in Threads : pc[t] \notin {"qopen", "qdone", "ropen"}

-----------------------------------------------------------------------------
(* C3 *)

\* C3: POST /api/highlight answers every failure of the scoring step with a
\* status code and an error detail string: 400 when no credential can be
\* resolved, 500 when the LLM call fails, an empty answer and an answer that
\* is not JSON included.
C3_EveryFailureHasStatusAndDetail ==
    \A t \in Threads :
        (pc[t] = Idle /\ Posted(t) /\ resp[t].exc # "") =>
            /\ out[t].kind = "http"
            /\ out[t].status = (IF resp[t].exc = "LLMNotConfigured" THEN 400 ELSE 500)
            /\ "detail" \in DOMAIN out[t]

-----------------------------------------------------------------------------
(* C4 *)

\* C4: every POST /api/highlight whose scoring step succeeds persists a query
\* record and a result record under the identifier of (text, question) and
\* returns the response, sentences and question, with that identifier as hash.
C4_SuccessPersistsAndReturnsHash ==
    \A t \in Threads :
        (pc[t] = Idle /\ Posted(t) /\ resp[t].exc = "") =>
            LET h == query_hash(req[t])
            IN  /\ saved.files[h].exists
                /\ results.files[h].exists
                /\ out[t] = Http("highlight", 200,
                                 [sentences |-> resp[t].response.sentences,
                                  question |-> resp[t].response.question,
                                  hash |-> h])

-----------------------------------------------------------------------------
(* C6 *)

Paired(h) ==
    Http("get_saved", 200,
         [query |-> saved.files[h].val,
          result |-> IF results.files[h].exists THEN results.files[h].val
                     ELSE NullResult])

\* the file holds the bytes of one document and nothing else
CompleteDocument(file) == file.val # NoData /\ file.size = file.vlen

\* C6 (as claimed): in every reachable state of the store GET /api/saved/{hash}
\* answers 404 when no query record exists under the hash, and otherwise the
\* query paired with the result record under the hash, or with null.
C6_NotFoundOrPaired ==
    \A h \in Hashes :
        get_saved(saved, results, h) =
            (IF ~saved.files[h].exists
             THEN HttpError("get_saved", 404, "Query not found")
             ELSE Paired(h))

\* C6 (amended): GET /api/saved/{hash} answers 404 when no query file exists
\* under the hash; when one exists and it, and the result file if there is
\* one, holds one complete JSON document, it answers the query paired with
\* the result or with null; when one of them is a file that a save_query has
\* opened and not yet written, or that overlapping writes left with trailing
\* bytes, the request fails with a JSON decode error nothing handles.
C6_NotFoundOrPairedWhenComplete ==
    \A h \in Hashes :
        get_saved(saved, results, h) =
            (IF ~saved.files[h].exists
             THEN HttpError("get_saved", 404, "Query not found")
             ELSE IF /\ CompleteDocument(saved.files[h])
                     /\ results.files[h].exists => CompleteDocument(results.files[h])
             THEN Paired(h)
             ELSE Unhandled("get_saved", "JSONDecodeError"))

\* a GET was answered with a query and a null result, while the save_query
\* that wrote the query has not yet opened the result file
C6_Witness ==
    \E h \in Hashes :
        /\ saved.files[h].exists
        /\ ~results.files[h].exists
        /\ got = Http("get_saved", 200,
                      [query |-> saved.files[h].val, result |-> NullResult])
        /\ \E g \in Hashes \ {h} : ~saved.files[g].exists

-----------------------------------------------------------------------------
(* C8 *)

Prefix(s, n) == [i \in 1..(IF Len(s) < n THEN Len(s) ELSE n) |-> s[i]]

ExpectedListing ==
    [k \in 1..Len(written) |->
        [hash |-> written[k].hash,
         question |-> Prefix(written[k].query.question, PreviewLen),
         text_preview |-> Prefix(written[k].query.text, PreviewLen)]]

\* C8: after any sequence of completed save_query calls GET /api/saved lists
\* every identifier that has a query record exactly once, the most recently
\* written first, with the first 100 characters of its question and text; it
\* lists nothing when nothing was saved.
C8_ListingMostRecentFirst ==
    AllIdle =>
        /\ list_saved(saved) = Http("list_saved", 200, ExpectedListing)
        /\ {written[k].hash : k \in 1..Len(written)}
               = {h \in Hashes : saved.files[h].exists}
        /\ \A i, j \in 1..Len(written) : i # j => written[i].hash # written[j].hash

\* a listing of two saved queries was served, the older one with previews cut
\* to 100 characters
C8_Witness ==
    /\ AllIdle
    /\ got.kind = "http" /\ got.route = "list_saved"
    /\ got = list_saved(saved)
    /\ Len(got.body) = 2
    /\ Len(written[2].query.text) > PreviewLen
    /\ Len(got.body[2].text_preview) = PreviewLen
    /\ Len(got.body[2].question) = PreviewLen

-----------------------------------------------------------------------------
(* C9 *)

\* C9: requests with different (text, question) are keyed from different
\* strings text + "|" + question.
C9_DistinctPairsDistinctKeys ==
    \A t, u \in Threads :
        (Posted(t) /\ Posted(u) /\ req[t] # req[u]) =>
            query_str(req[t]) # query_str(req[u])

-----------------------------------------------------------------------------
(* C10 *)

RECURSIVE Texts_of(_)
Texts_of(ss) == IF ss = <<>> THEN <<>> ELSE <<Head(ss).text>> \o Texts_of(Tail(ss))

\* the two records under h are complete and belong to one request
SamePair(h) ==
    /\ results.files[h].exists
    /\ CompleteDocument(saved.files[h])
    /\ CompleteDocument(results.files[h])
    /\ results.files[h].val.question = saved.files[h].val.question
    /\ Texts_of(results.files[h].val.sentences)
           = split_sentences(saved.files[h].val.text)

\* C10 (as claimed): once the save_query calls that map to one identifier have
\* all finished, however their writes interleaved, the query record and the
\* result record under it were written by the same call.
C10_SingleLastWriter ==
    NoSaveInProgress =>
        \A h \in Hashes : saved.files[h].exists => SamePair(h)

\* C10 (amended): once the save_query calls that map to one identifier have all
\* finished, the query record and the result record under it were written by
\* the same call, the last one, provided the last of them did not run
\* concurrently with another one; calls with interleaved writes can leave the
\* query of one call next to the result of another.
C10_SingleLastWriterUnlessInterleaved ==
    NoSaveInProgress =>
        \A h \in Hashes :
            (saved.files[h].exists /\ ~overlap[h]) =>
                /\ SamePair(h)
                /\ \E k \in 1..Len(written) :
                       /\ written[k].hash = h
                       /\ written[k].query = saved.files[h].val

\* two calls saved under one identifier one after the other, the second with
\* another (text, question), and its pair replaced the first one's
C10_Witness ==
    /\ AllIdle
    /\ \A t \in Threads : Posted(t) /\ resp[t].exc = ""
    /\ req["t1"] # req["t2"]
    /\ query_hash(req["t1"]) = query_hash(req["t2"])
    /\ ~overlap[query_hash(req["t1"])]
    /\ SamePair(query_hash(req["t1"]))

====
